---- MODULE Spec2Model ----
(***************************************************************************)
(* Model of the disk model (storage_devices/disk.py) and the disk finder   *)
(* (test_utils/disk_finder.py) of the test framework.                      *)
(*                                                                         *)
(* Three specifications share the variables:                               *)
(*   SpecDisk    one Disk object, its plug()/unplug()/is_detected() calls  *)
(*               and the target machine's hot-plug state;                  *)
(*   SpecTypes   the type-constraint expressions and the disk registry;    *)
(*   SpecFinder  one discovery pass of find_disks().                       *)
(* Each specification leaves the variables of the other two at rest.       *)
(***************************************************************************)
EXTENDS Integers, Sequences, FiniteSets, TLC

VARIABLES
    disk,       \* the Disk object: disk_type, serial_number, path, partitions, plug_command
    visible,    \* target machine: hardware devices currently listed as block devices
    pc,         \* position of the test thread: "idle" or "wait" (inside wait_for_plug_status)
    should,     \* should_be_visible argument of the running wait_for_plug_status
    elapsed,    \* seconds spent in the running wait()
    call,       \* the most recent call on the disk: op, ret, msg
    pre,        \* the disk's fields when that call started
    firstDet,   \* what the call's first is_detected() saw: result and serial-to-path mapping
    probes,     \* kinds of detection probes the call has sent to the target
    cmds,       \* the plug and removal commands the call has issued, in order
    exits,      \* the exit codes of those commands, in the same order
    lastAddr,   \* the sysfs address the most recent unplug() that resolved one parsed
    removed,    \* an unplug() has issued a removal command since construction
    registry,   \* TestRun.disks: disk name -> disk type
    expr,       \* the two type-constraint expressions under comparison
    evald,      \* result of the last evaluation on the expressions
    sysenv,     \* discovery: the target machine as the discovery pass sees it
    fpc,        \* discovery: position inside find_disks
    pool,       \* discovery: block_devices, the candidate pool
    result,     \* discovery: devices_result
    idx,        \* discovery: loop index (vendor entry / pool position)
    poolAfterSsd, \* discovery: the pool as discover_ssd_devices left it
    ran,        \* discovery: the commands the pass has run, in order
    raised      \* discovery: the message of the error find_disks ended with

vars == <<disk, visible, pc, should, elapsed, call, pre, firstDet, probes, cmds,
          exits, lastAddr, removed,
          registry, expr, evald, sysenv, fpc, pool, result, idx, poolAfterSsd,
          ran, raised>>

diskVars == <<disk, visible, pc, should, elapsed, call, pre, firstDet, probes, cmds,
              exits, lastAddr, removed>>
histVars == <<lastAddr, removed>>
typeVars == <<registry, expr, evald>>
finderVars == <<sysenv, fpc, pool, result, idx, poolAfterSsd, ran, raised>>

None == "None"

(***************************************************************************)
(* DiskType (IntEnum)                                                      *)
(***************************************************************************)
hdd == 0
hdd4k == 1
sata == 2
nand == 3
optane == 4

DiskType == {hdd, hdd4k, sata, nand, optane}

DiskTypeName(t) ==
    CASE t = hdd -> "hdd"
      [] t = hdd4k -> "hdd4k"
      [] t = sata -> "sata"
      [] t = nand -> "nand"
      [] t = optane -> "optane"

\* Disk.create_disk: nand and optane are NvmeDisk, everything else SataDisk
IsNvme(t) == t = nand \/ t = optane

(***************************************************************************)
(* The target machine, as far as plug detection reads it                   *)
(***************************************************************************)
\* by-id links of the two hot-pluggable devices of the target
PA == "/dev/disk/by-id/A"
PB == "/dev/disk/by-id/B"
\* kernel node of the device behind PA
PRaw == "/dev/sdb"

BlockDevs == {PA, PB}
\* the device the test plugs and unplugs; the one behind PB stays as it is
HotPlugDevs == {PA}

\* stdout of the three serial queries for a device, in the order they are tried:
\* the device behind PA answers the second and third, the one behind PB none
SerialOutputs(dev) ==
    IF dev = PA THEN <<"", "S1", "S1">> ELSE <<"", "", "">>

\* Python truthiness of an optional string
Truthy(x) == x # None /\ x # ""

\* first non-empty stdout wins, None when every query is empty
get_disk_serial_number(dev_path) ==
    LET out == SerialOutputs(dev_path)
        hits == {i \in DOMAIN out : Truthy(out[i])}
    IN  IF hits = {} THEN None
        ELSE out[CHOOSE i \in hits : \A j \in hits : i <= j]

\* the key a device gets in the mapping: its serial, or its own path without one
SerialKey(dev) ==
    LET serial == get_disk_serial_number(dev)
    IN  IF Truthy(serial) THEN serial ELSE dev

\* serial -> path of every block device get_block_devices_list() returns
get_all_serial_numbers(vis) ==
    [k \in {SerialKey(dev) : dev \in vis} |->
        CHOOSE dev \in vis : SerialKey(dev) = k]

\* fs_utils.ls_item + parse_ls_output: the path names an existing item
PathExists(p, vis) ==
    \/ p \in {PA, PRaw} /\ PA \in vis
    \/ p = PB /\ PB \in vis

\* disk_utils.get_partition_path(parent path, number)
get_partition_path(parent, number) == <<parent, "-part", number>>

\* faulty variant: the path is refreshed, the partitions' paths are not
is_detected_NoCascade(d, vis, lookupOk) ==
    IF Truthy(d.serial_number) THEN
        IF ~lookupOk THEN [ret |-> "LookupFailed", disk |-> d, probe |-> "lookup"]
        ELSE LET serial_numbers == get_all_serial_numbers(vis) IN
            IF d.serial_number \notin DOMAIN serial_numbers
            THEN [ret |-> "False", disk |-> d, probe |-> "lookup"]
            ELSE [ret |-> "True",
                  disk |-> [d EXCEPT !.path = serial_numbers[d.serial_number]],
                  probe |-> "lookup"]
    ELSE IF Truthy(d.path) THEN
        [ret |-> IF PathExists(d.path, vis) THEN "True" ELSE "False",
         disk |-> d, probe |-> "ls"]
    ELSE [ret |-> "ContractViolation", disk |-> d, probe |-> "none"]

\* faulty variant: without serial and path the method falls off its end and returns None
is_detected_NoRaise(d, vis, lookupOk) ==
    IF Truthy(d.serial_number) \/ Truthy(d.path)
    THEN is_detected_NoCascade(d, vis, lookupOk)
    ELSE [ret |-> "False", disk |-> d, probe |-> "none"]

(***************************************************************************)
(* Disk.is_detected: the value returned or the error raised, the disk      *)
(* after the call, and the kind of probe sent to the target.               *)
(* lookupOk: the commands of get_all_serial_numbers() all succeeded.       *)
(***************************************************************************)
is_detected(d, vis, lookupOk) ==
    IF Truthy(d.serial_number) THEN
        IF ~lookupOk THEN [ret |-> "LookupFailed", disk |-> d, probe |-> "lookup"]
        ELSE LET serial_numbers == get_all_serial_numbers(vis) IN
            IF d.serial_number \notin DOMAIN serial_numbers
            THEN [ret |-> "False", disk |-> d, probe |-> "lookup"]
            ELSE LET newPath == serial_numbers[d.serial_number] IN
                 [ret |-> "True",
                  disk |-> [d EXCEPT
                     !.path = newPath,
                     !.partitions = [i \in DOMAIN d.partitions |->
                         [d.partitions[i] EXCEPT
                            !.path = get_partition_path(newPath, d.partitions[i].number)]]],
                  probe |-> "lookup"]
    ELSE IF Truthy(d.path) THEN
        [ret |-> IF PathExists(d.path, vis) THEN "True" ELSE "False",
         disk |-> d, probe |-> "ls"]
    ELSE [ret |-> "ContractViolation", disk |-> d, probe |-> "none"]

(***************************************************************************)
(* Commands                                                                *)
(***************************************************************************)
Cmd(kind, arg) == [kind |-> kind, arg |-> arg]

\* an NvmeDisk has no plug_command attribute
NoCmd == Cmd("none", <<>>)
\* NvmeDisk.plug_all_command
NvmePlugAll == Cmd("pci_rescan", <<>>)
\* SataDisk.plug_all_command
SataPlugAll == Cmd("scsi_scan_all", <<>>)

\* the scan command get_sysfs_properties reconstructs from the parsed address:
\* echo 'port target lun' > .../host<controller>/scsi_host/host<controller>/scan
ScanCmd(addr) == Cmd("scsi_scan", <<addr[1], addr[2], addr[3], addr[4]>>)

\* faulty variant: the two action words of the message swapped
TimeoutMessage_Swapped(should_be_visible) ==
    <<"Timeout occurred while trying to ",
      IF should_be_visible THEN "unplug" ELSE "plug",
      " disk.">>

\* Disk.wait_for_plug_status: the text of the timeout error
TimeoutMessage(should_be_visible) ==
    <<"Timeout occurred while trying to ",
      IF should_be_visible THEN "plug" ELSE "unplug",
      " disk.">>

\* timedelta(minutes=1) and timedelta(seconds=1) of wait_for_plug_status
WaitTimeout == 60
WaitInterval == 1

(***************************************************************************)
(* Bounds of the disk model                                                *)
(***************************************************************************)
MaxParts == 1
MaxHost == 1

\* SCSI addresses (controller, port, target, lun) the sysfs search can resolve
SysfsAddrs == {<<c, 0, c, 0>> : c \in 0..MaxHost}

SerialChoices == {None, "S1", "S2"}
PathChoices == {None, PA, PRaw}

NewDisk(t, serial, path, nparts) ==
    [disk_type |-> t,
     serial_number |-> serial,
     path |-> path,
     partitions |-> [i \in 1..nparts |->
                        [number |-> i, path |-> get_partition_path(path, i)]],
     plug_command |-> IF IsNvme(t) THEN NoCmd ELSE SataPlugAll]

Probe(ps, r) == IF r.probe = "none" THEN ps ELSE ps \cup {r.probe}

\* no unplug() has parsed a sysfs address
NoAddr == <<>>

NoCall == [op |-> "none", ret |-> "none", msg |-> <<>>]
NoDet == [ret |-> "none", keys |-> {}, mapped |-> None]

\* what an is_detected() call saw: its outcome, the keys of the serial-to-path
\* mapping at that moment and the path mapped to the disk's serial
Seen(d, vis, r) ==
    LET m == get_all_serial_numbers(vis) IN
    [ret |-> r.ret,
     keys |-> DOMAIN m,
     mapped |-> IF d.serial_number \in DOMAIN m THEN m[d.serial_number] ELSE None]

(***************************************************************************)
(* Type-constraint expressions                                             *)
(***************************************************************************)
MaxSetSize == 2
DiskNames == {"cache", "core"}

\* DiskTypeSet(types) and DiskTypeLowerThan(disk_name)
SetExpr(S) == [kind |-> "set", types |-> S, name |-> ""]
LtExpr(n) == [kind |-> "lt", types |-> {}, name |-> n]
NoExpr == [kind |-> "none", types |-> {}, name |-> ""]

Exprs ==
    {SetExpr(S) : S \in {T \in SUBSET DiskType : Cardinality(T) <= MaxSetSize}}
        \cup {LtExpr(n) : n \in DiskNames}

\* TestRun.disks is a set of <<name, disk type>> with one entry a name at most
Registered(reg, n) == \E e \in reg : e[1] = n
RegisteredType(reg, n) == (CHOOSE e \in reg : e[1] = n)[2]

\* DiskTypeSet.resolved, DiskTypeLowerThan.resolved
resolved(e, reg) == IF e.kind = "set" THEN TRUE ELSE Registered(reg, e.name)

\* faulty variant: "<=" for "<" in the filter of DiskTypeLowerThan.types
types_Inclusive(e, reg) ==
    IF e.kind = "set" THEN [err |-> "ok", set |-> e.types]
    ELSE IF ~resolved(e, reg) THEN [err |-> "LookupError", set |-> {}]
    ELSE [err |-> "ok", set |-> {d \in DiskType : d <= RegisteredType(reg, e.name)}]

\* DiskTypeSet.types, DiskTypeLowerThan.types: the set returned or the error raised
types(e, reg) ==
    IF e.kind = "set" THEN [err |-> "ok", set |-> e.types]
    ELSE IF ~resolved(e, reg) THEN [err |-> "LookupError", set |-> {}]
    ELSE LET disk_type == RegisteredType(reg, e.name) IN
         [err |-> "ok", set |-> {d \in DiskType : d < disk_type}]

\* Python's min() of a set of IntEnum values: ValueError on the empty set
min(S) ==
    IF S = {} THEN [err |-> "ValueError", val |-> 0]
    ELSE [err |-> "ok", val |-> CHOOSE m \in S : \A x \in S : m <= x]

CmpOps == {"lt", "le", "eq", "ne", "gt", "ge"}

IntCmp(op, x, y) ==
    CASE op = "lt" -> x < y
      [] op = "le" -> x <= y
      [] op = "eq" -> x = y
      [] op = "ne" -> x # y
      [] op = "gt" -> x > y
      [] op = "ge" -> x >= y

\* faulty variant: the comparison looks at the largest type of each side
compare_Max(op, a, b, reg) ==
    LET ta == types(a, reg)
        tb == types(b, reg)
        big(S) == CHOOSE m \in S : \A x \in S : m >= x
    IN  IF ta.err # "ok" THEN [err |-> ta.err, bool |-> FALSE]
        ELSE IF ta.set = {} THEN [err |-> "ValueError", bool |-> FALSE]
        ELSE IF tb.err # "ok" THEN [err |-> tb.err, bool |-> FALSE]
        ELSE IF tb.set = {} THEN [err |-> "ValueError", bool |-> FALSE]
        ELSE [err |-> "ok", bool |-> IntCmp(op, big(ta.set), big(tb.set))]

\* DiskTypeSetBase.__lt__ .. __ge__: min(self.types()) <op> min(other.types()),
\* the left side evaluated first; the boolean returned or the error raised
compare(op, a, b, reg) ==
    LET ta == types(a, reg) IN
    IF ta.err # "ok" THEN [err |-> ta.err, bool |-> FALSE]
    ELSE LET ma == min(ta.set) IN
    IF ma.err # "ok" THEN [err |-> ma.err, bool |-> FALSE]
    ELSE LET tb == types(b, reg) IN
    IF tb.err # "ok" THEN [err |-> tb.err, bool |-> FALSE]
    ELSE LET mb == min(tb.set) IN
    IF mb.err # "ok" THEN [err |-> mb.err, bool |-> FALSE]
    ELSE [err |-> "ok", bool |-> IntCmp(op, ma.val, mb.val)]

Eval(op, err, bool, set) == [op |-> op, err |-> err, bool |-> bool, set |-> set]
NoEval == Eval("none", "ok", FALSE, {})

(***************************************************************************)
(* The target machine, as far as a discovery pass reads it                 *)
(***************************************************************************)
MaxEntries == 2

\* "ls /sys/block -1": device-mapper devices and the three whole disks
ListBlock == <<"dm-0", "dm-1", "nvme0n1", "sda", "sdb">>
WholeDisks == {"nvme0n1", "sda", "sdb"}

\* the partitions of the target, with the whole disk each one lies on
\* (the partition file exists; <sys block path>/<name>/.. is the parent)
ParentOf == [n \in {"sda1", "sdb1", "nvme0n1p1"} |->
                CASE n = "sda1" -> "sda" [] n = "sdb1" -> "sdb" [] OTHER -> "nvme0n1"]

\* 'sd' in name, 'nvme' in name
HasSd(n) == n \in {"sda", "sdb", "sda1", "sdb1"}
HasNvme(n) == n \in {"nvme0n1", "nvme0n1p1"}

\* /dev/disk/by-id link of a block device; the SCSI generic node sg1 has none
LinkOf == [n \in WholeDisks |->
              CASE n = "sda" -> "/dev/disk/by-id/ata-sda"
                [] n = "sdb" -> "/dev/disk/by-id/ata-sdb"
                [] OTHER -> "/dev/disk/by-id/nvme-nvme0n1"]
Links == {LinkOf[n] : n \in WholeDisks}

\* readlink(link) without its /dev/ prefix
NameOf(link) == CHOOSE n \in WholeDisks : LinkOf[n] = link

\* "Unit serial number" of sg_inq: one serial a device
InqSerial(link) == <<"SN", NameOf(link)>>

BlockSizes == {512, 4096, 8192}

\* root filesystem layouts: the device mounted on / and the slaves directories.
\* Whole disks have an empty slaves directory, partitions have none.
NoSlaves == [n \in {"dm-0", "dm-1"} |-> <<>>]
RootLayouts ==
    { [root |-> "sda1", slaves |-> NoSlaves],
      [root |-> "sdb", slaves |-> NoSlaves],
      [root |-> "dm-0", slaves |-> [NoSlaves EXCEPT !["dm-0"] = <<"sda1">>]],
      [root |-> "dm-0", slaves |-> [NoSlaves EXCEPT !["dm-0"] = <<"nvme0n1p1", "sdb1">>]],
      [root |-> "dm-1", slaves |-> [NoSlaves EXCEPT !["dm-0"] = <<"sda1">>,
                                                    !["dm-1"] = <<"dm-0", "sdb1">>]] }

\* entries of the vendor tool's inventory: the device path, the serial number
\* it reports (the device's own, or in a format sg_inq does not print) and
\* whether the entry mentions Optane (NVMe devices only)
VendorEntries ==
    {[dev |-> n, serial |-> sn, optane |-> FALSE] :
        n \in {"sda", "sdb"}, sn \in {"inq", "other"}}
    \cup {[dev |-> "nvme0n1", serial |-> "inq", optane |-> o] : o \in BOOLEAN}
    \cup {[dev |-> "sg1", serial |-> "inq", optane |-> FALSE]}

\* the inventories: every device is listed once at most
Inventories ==
    UNION {{inv \in [1..k -> VendorEntries] :
               \A i, j \in 1..k : i # j => inv[i].dev # inv[j].dev} : k \in 0..MaxEntries}

\* the serial number of a vendor entry, as sg_inq would or would not print it
EntrySerial(e) == IF e.serial = "inq" THEN <<"SN", e.dev>> ELSE <<"ALT", e.dev>>

RestEnv == [root |-> "sda1", slaves |-> NoSlaves,
            blocksize |-> [n \in WholeDisks |-> 512], entries |-> <<>>]

(***************************************************************************)
(* disk_finder: the pure parts                                             *)
(***************************************************************************)
RECURSIVE get_slaves(_, _), SlavesOfAll(_, _)

\* __get_slaves: the devices under device_name that have no slaves themselves;
\* empty (None or []) when device_name has no slaves directory or an empty one
get_slaves(env, device_name) ==
    IF device_name \notin DOMAIN env.slaves THEN <<>>
    ELSE SlavesOfAll(env, env.slaves[device_name])

\* the loop of __get_slaves over the listed slaves
SlavesOfAll(env, device_names) ==
    IF device_names = <<>> THEN <<>>
    ELSE LET first == Head(device_names)
             slaves == get_slaves(env, first)
         IN  (IF slaves # <<>> THEN slaves ELSE <<first>>)
                 \o SlavesOfAll(env, Tail(device_names))

\* faulty variant: a partition is kept as it is, not replaced by its disk
get_system_disks_KeepsPartitions(env) ==
    LET slaves == get_slaves(env, env.root)
    IN  IF slaves # <<>> THEN slaves ELSE <<env.root>>

\* get_system_disks: the names of the disks under the root filesystem
get_system_disks(env) ==
    LET slaves == get_slaves(env, env.root)
        used_device_names == IF slaves # <<>> THEN slaves ELSE <<env.root>>
    IN  [i \in DOMAIN used_device_names |->
            IF used_device_names[i] \in DOMAIN ParentOf
            THEN ParentOf[used_device_names[i]]
            ELSE used_device_names[i]]

Range(seq) == {seq[i] : i \in DOMAIN seq}

\* resolve_to_by_id_link: the link, or ValueError without one
resolve_to_by_id_link(path) ==
    IF path \in DOMAIN LinkOf THEN [err |-> "ok", link |-> LinkOf[path]]
    ELSE [err |-> "ValueError", link |-> ""]

\* get_block_devices_list: the by-id links of the listed sd and nvme devices that
\* are no system disks, in listing order
get_block_devices_list(env) ==
    LET os_disks == Range(get_system_disks(env))
        kept == SelectSeq(ListBlock,
                   LAMBDA dev : (HasSd(dev) \/ HasNvme(dev)) /\ dev \notin os_disks)
    IN  [i \in DOMAIN kept |-> resolve_to_by_id_link(kept[i]).link]

\* find_sata_ssd_device_path: the first device of the pool with this serial
find_sata_ssd_device_path(serial_number, block_devices) ==
    LET hits == {i \in DOMAIN block_devices : InqSerial(block_devices[i]) = serial_number}
    IN  IF hits = {} THEN None
        ELSE block_devices[CHOOSE i \in hits : \A j \in hits : i <= j]

\* list.remove(dev): the first occurrence is taken out
Remove(seq, x) ==
    LET i == CHOOSE k \in DOMAIN seq : seq[k] = x /\ \A j \in 1..(k - 1) : seq[j] # x
    IN  SubSeq(seq, 1, i - 1) \o SubSeq(seq, i + 1, Len(seq))

\* the block size that makes a disk an hdd4k
FourK == 4096

\* faulty variant: every block size of 4096 or more counts as 4k
HddType_AtLeast(block_size) == IF block_size >= FourK THEN "hdd4k" ELSE "hdd"

\* discover_hdd_devices: hdd4k for a block size of 4096, hdd otherwise
HddType(block_size) == IF block_size = FourK THEN "hdd4k" ELSE "hdd"

Record(t, path, serial, bs) ==
    [type |-> t, path |-> path, serial |-> serial, blocksize |-> bs]

\* disk_utils.get_block_size(readlink(dev) without /dev/)
get_block_size(env, dev) == env.blocksize[NameOf(dev)]

\* faulty variant: the device of an appended SSD record stays in the pool
Consume_Keeps(block_devices, dev) == block_devices

\* block_devices.remove(dev) after an SSD record is appended
Consume(block_devices, dev) == Remove(block_devices, dev)

\* the body of the loop of discover_ssd_devices for one vendor entry:
\* err "ok", whether the entry was skipped, the record made and the pool after;
\* err "ValueError" when the device path of the entry has no by-id link.
\* (A path that contains "sg" never passes the resolution, so its branch is
\* not reached.)
SsdEntry(env, block_devices, e) ==
    LET device_path == e.dev
        r == resolve_to_by_id_link(device_path)
        skip == [err |-> "ok", skipped |-> TRUE,
                 rec |-> Record("none", "", <<>>, 0), pool |-> block_devices]
    IN  IF r.err # "ok" THEN [skip EXCEPT !.err = r.err]
        ELSE IF r.link \notin Range(block_devices) THEN skip
        ELSE LET serial_number == EntrySerial(e)
                 isSata == ~HasNvme(device_path)
                 dev == IF isSata
                        THEN find_sata_ssd_device_path(serial_number, block_devices)
                        ELSE r.link
                 disk_type == IF isSata THEN "sata"
                              ELSE IF e.optane THEN "optane" ELSE "nand"
             IN  IF dev = None THEN skip
                 ELSE [err |-> "ok", skipped |-> FALSE,
                       rec |-> Record(disk_type, r.link, serial_number,
                                      get_block_size(env, dev)),
                       pool |-> Consume(block_devices, dev)]

\* the body of the loop of discover_hdd_devices for one device of the pool
HddEntry(env, dev) ==
    LET block_size == get_block_size(env, dev)
    IN  Record(HddType(block_size), dev, InqSerial(dev), block_size)

(***************************************************************************)
(* The commands of a discovery pass and the errors it raises.  ran is the  *)
(* list of the commands the pass has run, raised the message of the error  *)
(* find_disks ended with (a message is the list of its pieces).            *)
(***************************************************************************)
\* the invocation of the vendor tool
IsdctCmd == "isdct"
\* the listing of /sys/block (and of the devices under the root filesystem)
ListCmd == "ls /sys/block -1"
\* the queries of one vendor entry
ShowCmd == "isdct show -intelssd"
\* the serial number inquiry of one device of the pool
InqCmd == "sg_inq"

\* what the executor captures of a run of 'isdct'
IsdctOutputs ==
    [exit_code : {0, 1, 127},
     stdout : {"", "Usage: isdct"},
     stderr : {"", "isdct: command not found"}]

\* the outputs of the other commands, told apart by their exit code only
Success == [exit_code |-> 0, stdout |-> "", stderr |-> ""]
Failure == [exit_code |-> 1, stdout |-> "", stderr |-> ""]

\* an entry of ran: the command and what the executor captured of it
Ran(cmd, output) == [cmd |-> cmd, output |-> output]

\* faulty variant: only the shell's "command not found" counts as a failure
IsdctFailed_NotFoundOnly(output) == output.exit_code = 127

IsdctFailed(output) == output.exit_code # 0

NoError == <<>>

\* the exception of find_disks for a failed run of 'isdct'
IsdctError(output) ==
    <<"Error while executing command: '", IsdctCmd, "'.\nstdout: ",
      output.stdout, "\nstderr: ", output.stderr>>

\* the error of a command that run_expect_success found failed
CommandError(cmd) == <<"CmdException", cmd>>

\* the exception find_disks makes of one raised during discovery
Wrapped(e) == <<"Exception occurred while looking for disks: ">> \o e

(***************************************************************************)
(* Initial states of the three parts                                       *)
(***************************************************************************)
InitDisk ==
    \* partitions are created on a disk that has a path
    /\ \E t \in DiskType, s \in SerialChoices, p \in PathChoices, n \in 0..MaxParts :
          /\ n > 0 => Truthy(p)
          /\ disk = NewDisk(t, s, p, n)
          /\ pre = NewDisk(t, s, p, n)
    /\ visible \in SUBSET BlockDevs
    /\ pc = "idle"
    /\ should = TRUE
    /\ elapsed = 0
    /\ call = NoCall
    /\ firstDet = NoDet
    /\ probes = {}
    /\ cmds = <<>>
    /\ exits = <<>>
    /\ lastAddr = NoAddr
    /\ removed = FALSE
    \* no expression is evaluated and no discovery pass runs
    /\ registry = {}
    /\ expr = <<NoExpr, NoExpr>>
    /\ evald = NoEval
    /\ sysenv = RestEnv
    /\ fpc = "none"
    /\ pool = <<>>
    /\ result = <<>>
    /\ idx = 0
    /\ poolAfterSsd = <<>>
    /\ ran = <<>>
    /\ raised = NoError




(***************************************************************************)
(* The target: the device comes and goes (hot-plug, rescans, removals)     *)
(***************************************************************************)
EnvAppear ==
    /\ \E dev \in HotPlugDevs \ visible : visible' = visible \cup {dev}
    /\ UNCHANGED <<disk, pc, should, elapsed, call, pre, firstDet, probes, cmds, exits>>
    /\ UNCHANGED histVars
    /\ UNCHANGED <<typeVars, finderVars>>

EnvDisappear ==
    /\ \E dev \in HotPlugDevs \cap visible : visible' = visible \ {dev}
    /\ UNCHANGED <<disk, pc, should, elapsed, call, pre, firstDet, probes, cmds, exits>>
    /\ UNCHANGED histVars
    /\ UNCHANGED <<typeVars, finderVars>>

(***************************************************************************)
(* A direct call of Disk.is_detected()                                     *)
(***************************************************************************)
IsDetectedCall ==
    /\ pc = "idle"
    /\ \E lookupOk \in BOOLEAN :
         LET r == is_detected(disk, visible, lookupOk) IN
         /\ disk' = r.disk
         /\ call' = [op |-> "is_detected", ret |-> r.ret, msg |-> <<>>]
         /\ firstDet' = Seen(disk, visible, r)
         /\ probes' = Probe({}, r)
    /\ pre' = disk
    /\ cmds' = <<>>
    /\ exits' = <<>>
    /\ UNCHANGED <<visible, pc, should, elapsed>>
    /\ UNCHANGED histVars
    /\ UNCHANGED <<typeVars, finderVars>>

(***************************************************************************)
(* execute_plug_command / execute_unplug_command: the commands issued, in  *)
(* order, the error raised ("ok" when none) and the disk afterwards.       *)
(***************************************************************************)
\* the exit code of a command: 0, or 1 for any nonzero code
ExitCode(ok) == IF ok THEN 0 ELSE 1

\* NvmeDisk.execute_plug_command, SataDisk.execute_plug_command
\* ok: the command exited with 0
execute_plug_command(d, ok) ==
    [cmds |-> << IF IsNvme(d.disk_type) THEN NvmePlugAll ELSE d.plug_command >>,
     exits |-> << ExitCode(ok) >>,
     err |-> IF ok THEN "ok" ELSE "CmdException",
     msg |-> <<>>,
     disk |-> d]

\* the two removal writes of an NVMe disk
NvmeRemove == Cmd("nvme_remove", <<>>)
NvmeRemoveNested == Cmd("nvme_remove_nested", <<>>)

\* CmdException("Failed to unplug PCI disk using sysfs.", output): the text
\* and the command whose captured output the exception carries
UnplugFailed(cmd) ==
    <<"Failed to unplug PCI disk using sysfs.", "output of", cmd.kind>>

\* faulty variant: the nested write is made whatever the first write gave
NvmeUnplug_AlwaysNested(d, ok1, ok2) ==
    [cmds |-> << NvmeRemove, NvmeRemoveNested >>,
     exits |-> << ExitCode(ok1), ExitCode(ok2) >>,
     err |-> IF ok2 THEN "ok" ELSE "CmdException",
     msg |-> IF ok2 THEN <<>> ELSE UnplugFailed(NvmeRemoveNested),
     disk |-> d]

\* NvmeDisk.execute_unplug_command
\* ok1, ok2: exit code 0 of the write to device/remove, to device/device/remove
NvmeUnplug(d, ok1, ok2) ==
    IF ok1 THEN [cmds |-> << NvmeRemove >>, exits |-> << ExitCode(ok1) >>,
                 err |-> "ok", msg |-> <<>>, disk |-> d]
    ELSE [cmds |-> << NvmeRemove, NvmeRemoveNested >>,
          exits |-> << ExitCode(ok1), ExitCode(ok2) >>,
          err |-> IF ok2 THEN "ok" ELSE "CmdException",
          msg |-> IF ok2 THEN <<>> ELSE UnplugFailed(NvmeRemoveNested),
          disk |-> d]

\* faulty variant: a targeted scan command cached before is kept
get_sysfs_properties_CachesOnce(d, found) ==
    IF found.status = "notfound" THEN [err |-> "SysfsNotFound", disk |-> d]
    ELSE IF found.status = "malformed" THEN [err |-> "TypeError", disk |-> d]
    ELSE [err |-> "ok",
          disk |-> IF d.plug_command = SataPlugAll
                   THEN [d EXCEPT !.plug_command = ScanCmd(found.addr)]
                   ELSE d]

\* SataDisk.get_sysfs_properties
\* found.status: "notfound" (the search lists nothing), "malformed" (the third-last
\* path component is no c:p:t:l address) or "ok" with the parsed address
get_sysfs_properties(d, found) ==
    IF found.status = "notfound" THEN [err |-> "SysfsNotFound", disk |-> d]
    ELSE IF found.status = "malformed" THEN [err |-> "TypeError", disk |-> d]
    ELSE [err |-> "ok", disk |-> [d EXCEPT !.plug_command = ScanCmd(found.addr)]]

\* SataDisk.execute_unplug_command
SataUnplug(d, found, ok) ==
    LET g == get_sysfs_properties(d, found) IN
    IF g.err # "ok"
    THEN [cmds |-> <<>>, exits |-> <<>>, err |-> g.err, msg |-> <<>>, disk |-> g.disk]
    ELSE [cmds |-> << Cmd("scsi_delete", found.addr) >>,
          exits |-> << ExitCode(ok) >>,
          msg |-> <<>>,
          err |-> IF ok THEN "ok" ELSE "CmdException",
          disk |-> g.disk]

SysfsOutcomes ==
    {[status |-> st, addr |-> <<>>] : st \in {"notfound", "malformed"}}
        \cup {[status |-> "ok", addr |-> a] : a \in SysfsAddrs}

\* the sysfs search of the unplug found the device and its address was parsed
Parsed(d, ans) == ~IsNvme(d.disk_type) /\ ans.found.status = "ok"

\* what the target can answer to the commands of execute_unplug_command
UnplugAnswers(d) ==
    IF IsNvme(d.disk_type)
    THEN {[found |-> [status |-> "notfound", addr |-> <<>>], ok1 |-> a, ok2 |-> b] :
              a \in BOOLEAN, b \in BOOLEAN}
    ELSE {[found |-> f, ok1 |-> a, ok2 |-> TRUE] : f \in SysfsOutcomes, a \in BOOLEAN}

execute_unplug_command(d, ans) ==
    IF IsNvme(d.disk_type) THEN NvmeUnplug(d, ans.ok1, ans.ok2)
    ELSE SataUnplug(d, ans.found, ans.ok1)

(***************************************************************************)
(* Disk.plug() and Disk.unplug(), up to the start of the wait              *)
(***************************************************************************)
\* plug(): "if self.is_detected(): return"
PlugSkips(r) == r.ret = "True"

\* faulty variant: unplug() with the "not" of its guard lost
UnplugSkips_Inverted(r) == r.ret = "True"

\* unplug(): "if not self.is_detected(): return"
UnplugSkips(r) == r.ret = "False"

\* faulty variant: the polled predicate ignores should_be_visible
PollSatisfied_IgnoresWanted(should_be_visible, r) == r.ret = "True"

\* the predicate wait_for_plug_status polls: should_be_visible == self.is_detected()
PollSatisfied(should_be_visible, r) == should_be_visible = (r.ret = "True")

\* the call ends with ret (the locals of the wait are gone)
Finish(op, ret, msg) ==
    /\ call' = [op |-> op, ret |-> ret, msg |-> msg]
    /\ pc' = "idle"
    /\ should' = TRUE
    /\ elapsed' = 0

\* the call goes on into wait_for_plug_status(visibleWanted)
StartWait(op, visibleWanted) ==
    /\ call' = [op |-> op, ret |-> "running", msg |-> <<>>]
    /\ pc' = "wait"
    /\ should' = visibleWanted
    /\ elapsed' = 0

PlugCall ==
    /\ pc = "idle"
    /\ pre' = disk
    /\ UNCHANGED visible
    /\ UNCHANGED histVars
    /\ UNCHANGED <<typeVars, finderVars>>
    /\ \E lookupOk \in BOOLEAN :
         LET r == is_detected(disk, visible, lookupOk) IN
         /\ firstDet' = Seen(disk, visible, r)
         /\ probes' = Probe({}, r)
         /\ IF r.ret \in {"ContractViolation", "LookupFailed"} THEN
                /\ disk' = r.disk
                /\ cmds' = <<>>
                /\ exits' = <<>>
                /\ Finish("plug", r.ret, <<>>)
            ELSE IF PlugSkips(r) THEN
                /\ disk' = r.disk
                /\ cmds' = <<>>
                /\ exits' = <<>>
                /\ Finish("plug", "return", <<>>)
            ELSE
                \E ok \in BOOLEAN :
                  LET x == execute_plug_command(r.disk, ok) IN
                  /\ disk' = x.disk
                  /\ cmds' = x.cmds
                  /\ exits' = x.exits
                  /\ IF x.err # "ok" THEN Finish("plug", x.err, x.msg)
                     ELSE StartWait("plug", TRUE)

UnplugCall ==
    /\ pc = "idle"
    /\ pre' = disk
    /\ UNCHANGED visible
    /\ UNCHANGED <<typeVars, finderVars>>
    /\ \E lookupOk \in BOOLEAN :
         LET r == is_detected(disk, visible, lookupOk) IN
         /\ firstDet' = Seen(disk, visible, r)
         /\ probes' = Probe({}, r)
         /\ IF r.ret \in {"ContractViolation", "LookupFailed"} THEN
                /\ disk' = r.disk
                /\ cmds' = <<>>
                /\ exits' = <<>>
                /\ UNCHANGED histVars
                /\ Finish("unplug", r.ret, <<>>)
            ELSE IF UnplugSkips(r) THEN
                /\ disk' = r.disk
                /\ cmds' = <<>>
                /\ exits' = <<>>
                /\ UNCHANGED histVars
                /\ Finish("unplug", "return", <<>>)
            ELSE
                \E ans \in UnplugAnswers(r.disk) :
                  LET x == execute_unplug_command(r.disk, ans) IN
                  /\ disk' = x.disk
                  /\ cmds' = x.cmds
                  /\ exits' = x.exits
                  /\ lastAddr' = IF Parsed(r.disk, ans) THEN ans.found.addr
                                 ELSE lastAddr
                  /\ removed' = (removed \/ x.cmds # <<>>)
                  /\ IF x.err # "ok" THEN Finish("unplug", x.err, x.msg)
                     ELSE StartWait("unplug", FALSE)

(***************************************************************************)
(* Disk.wait_for_plug_status: os_utils.wait(predicate, timeout, interval)  *)
(* polls while the deadline has not passed, sleeps the interval after a    *)
(* poll that failed and returns the last result.                           *)
(***************************************************************************)
\* os_utils.wait: the deadline has not passed, the predicate is polled again
WaitGoesOn(waited, timeout) == waited < timeout

\* os_utils.wait: the time waited after the sleep that follows a failed poll
WaitSleep(waited, interval) == waited + interval

Poll ==
    /\ pc = "wait"
    /\ WaitGoesOn(elapsed, WaitTimeout)
    /\ UNCHANGED <<visible, pre, firstDet, cmds, exits>>
    /\ UNCHANGED histVars
    /\ UNCHANGED <<typeVars, finderVars>>
    /\ \E lookupOk \in BOOLEAN :
         LET r == is_detected(disk, visible, lookupOk) IN
         /\ disk' = r.disk
         /\ probes' = Probe(probes, r)
         /\ IF r.ret \in {"ContractViolation", "LookupFailed"} THEN
                Finish(call.op, r.ret, <<>>)
            ELSE IF PollSatisfied(should, r) THEN
                Finish(call.op, "return", <<>>)
            ELSE
                /\ elapsed' = WaitSleep(elapsed, WaitInterval)
                /\ UNCHANGED <<call, pc, should>>

\* the deadline passed with the last poll failed: wait() returns False
Timeout ==
    /\ pc = "wait"
    /\ ~WaitGoesOn(elapsed, WaitTimeout)
    /\ Finish(call.op, "Timeout", TimeoutMessage(should))
    /\ UNCHANGED <<disk, visible, pre, firstDet, probes, cmds, exits>>
    /\ UNCHANGED histVars
    /\ UNCHANGED <<typeVars, finderVars>>

(***************************************************************************)
(* Specification of the disk model                                         *)
(***************************************************************************)
NextDisk ==
    \/ EnvAppear
    \/ EnvDisappear
    \/ IsDetectedCall
    \/ PlugCall
    \/ UnplugCall
    \/ Poll
    \/ Timeout

SpecDisk == InitDisk /\ [][NextDisk]_vars

(***************************************************************************)
(* The disk registry and evaluations of expressions against it.  evald is  *)
(* the result of the evaluation the caller holds, made against the         *)
(* registry as it is: the caller drops it before the next evaluation, and  *)
(* a change of the registry forgets it.                                    *)
(***************************************************************************)
InitTypes ==
    /\ registry = {}
    /\ expr = <<NoExpr, NoExpr>>
    /\ evald = NoEval
    \* no disk operation and no discovery pass runs
    /\ disk = NewDisk(sata, "S1", PA, 0)
    /\ pre = NewDisk(sata, "S1", PA, 0)
    /\ visible = {}
    /\ pc = "idle"
    /\ should = TRUE
    /\ elapsed = 0
    /\ call = NoCall
    /\ firstDet = NoDet
    /\ probes = {}
    /\ cmds = <<>>
    /\ exits = <<>>
    /\ lastAddr = NoAddr
    /\ removed = FALSE
    /\ sysenv = RestEnv
    /\ fpc = "none"
    /\ pool = <<>>
    /\ result = <<>>
    /\ idx = 0
    /\ poolAfterSsd = <<>>
    /\ ran = <<>>
    /\ raised = NoError

\* a discovered disk is registered under its name (or registered anew)
Register ==
    /\ \E n \in DiskNames, t \in DiskType :
          registry' = {e \in registry : e[1] # n} \cup {<<n, t>>}
    /\ expr' = <<NoExpr, NoExpr>>
    /\ evald' = NoEval
    /\ UNCHANGED <<diskVars, finderVars>>

\* the registry is emptied for the next test run
ClearRegistry ==
    /\ registry # {}
    /\ registry' = {}
    /\ expr' = <<NoExpr, NoExpr>>
    /\ evald' = NoEval
    /\ UNCHANGED <<diskVars, finderVars>>

\* the caller is done with the result
Discard ==
    /\ evald # NoEval
    /\ expr' = <<NoExpr, NoExpr>>
    /\ evald' = NoEval
    /\ UNCHANGED registry
    /\ UNCHANGED <<diskVars, finderVars>>

CallResolved ==
    /\ evald = NoEval
    /\ \E e \in Exprs :
          /\ expr' = <<e, NoExpr>>
          /\ evald' = Eval("resolved", "ok", resolved(e, registry), {})
    /\ UNCHANGED registry
    /\ UNCHANGED <<diskVars, finderVars>>

CallTypes ==
    /\ evald = NoEval
    /\ \E e \in Exprs :
          LET t == types(e, registry) IN
          /\ expr' = <<e, NoExpr>>
          /\ evald' = Eval("types", t.err, FALSE, t.set)
    /\ UNCHANGED registry
    /\ UNCHANGED <<diskVars, finderVars>>

CallCompare ==
    /\ evald = NoEval
    /\ \E op \in CmpOps, a \in Exprs, b \in Exprs :
          LET c == compare(op, a, b, registry) IN
          /\ expr' = <<a, b>>
          /\ evald' = Eval(op, c.err, c.bool, {})
    /\ UNCHANGED registry
    /\ UNCHANGED <<diskVars, finderVars>>

NextTypes ==
    \/ Register
    \/ ClearRegistry
    \/ Discard
    \/ CallResolved
    \/ CallTypes
    \/ CallCompare

SpecTypes == InitTypes /\ [][NextTypes]_vars

(***************************************************************************)
(* find_disks(): one discovery pass, a step an inventory entry or device   *)
(***************************************************************************)
InitFinder ==
    /\ \E lay \in RootLayouts, bs \in [WholeDisks -> BlockSizes], inv \in Inventories :
          sysenv = [root |-> lay.root, slaves |-> lay.slaves,
                    blocksize |-> bs, entries |-> inv]
    /\ fpc = "start"
    /\ pool = <<>>
    /\ result = <<>>
    /\ idx = 0
    /\ poolAfterSsd = <<>>
    /\ ran = <<>>
    /\ raised = NoError
    \* no disk operation runs and no expression is evaluated
    /\ disk = NewDisk(sata, "S1", PA, 0)
    /\ pre = NewDisk(sata, "S1", PA, 0)
    /\ visible = {}
    /\ pc = "idle"
    /\ should = TRUE
    /\ elapsed = 0
    /\ call = NoCall
    /\ firstDet = NoDet
    /\ probes = {}
    /\ cmds = <<>>
    /\ exits = <<>>
    /\ lastAddr = NoAddr
    /\ removed = FALSE
    /\ registry = {}
    /\ expr = <<NoExpr, NoExpr>>
    /\ evald = NoEval

\* find_disks up to the call of discover_ssd_devices: the vendor tool is run,
\* then the block devices are listed
\* output: what 'isdct' gave; listOk: the listing commands succeeded
FindDisksStart ==
    /\ fpc = "start"
    /\ \E output \in IsdctOutputs, listOk \in BOOLEAN :
          IF IsdctFailed(output)
          THEN /\ fpc' = "failed_isdct"
               /\ raised' = IsdctError(output)
               /\ ran' = Append(ran, Ran(IsdctCmd, output))
               /\ pool' = pool
          ELSE IF ~listOk
          THEN /\ fpc' = "failed_listing"
               /\ raised' = CommandError(ListCmd)
               /\ ran' = ran \o <<Ran(IsdctCmd, output), Ran(ListCmd, Failure)>>
               /\ pool' = pool
          ELSE /\ fpc' = "ssd"
               /\ raised' = raised
               /\ ran' = ran \o <<Ran(IsdctCmd, output), Ran(ListCmd, Success)>>
               /\ pool' = get_block_devices_list(sysenv)
    /\ UNCHANGED <<sysenv, result, idx, poolAfterSsd>>
    /\ UNCHANGED <<diskVars, typeVars>>

\* one entry of the vendor inventory
\* cmdOk: the commands run for the entry all succeeded
SsdStep ==
    /\ fpc = "ssd"
    /\ idx < Len(sysenv.entries)
    /\ \E cmdOk \in BOOLEAN :
          LET x == SsdEntry(sysenv, pool, sysenv.entries[idx + 1]) IN
          IF ~cmdOk \/ x.err # "ok"
          THEN /\ fpc' = "failed_wrapped"
               /\ raised' = Wrapped(CommandError(ShowCmd))
               /\ UNCHANGED <<pool, result, idx>>
          ELSE /\ fpc' = fpc
               /\ raised' = raised
               /\ idx' = idx + 1
               /\ pool' = x.pool
               /\ result' = IF x.skipped THEN result ELSE Append(result, x.rec)
    /\ ran' = Append(ran, Ran(ShowCmd,
                                IF fpc' = "failed_wrapped" THEN Failure ELSE Success))
    /\ UNCHANGED <<sysenv, poolAfterSsd>>
    /\ UNCHANGED <<diskVars, typeVars>>

\* discover_ssd_devices returns, discover_hdd_devices starts
SsdDone ==
    /\ fpc = "ssd"
    /\ idx = Len(sysenv.entries)
    /\ fpc' = "hdd"
    /\ idx' = 0
    /\ poolAfterSsd' = pool
    /\ UNCHANGED <<sysenv, pool, result, ran, raised>>
    /\ UNCHANGED <<diskVars, typeVars>>

\* one device of the pool
HddStep ==
    /\ fpc = "hdd"
    /\ idx < Len(pool)
    /\ \E cmdOk \in BOOLEAN :
          IF ~cmdOk
          THEN /\ fpc' = "failed_wrapped"
               /\ raised' = Wrapped(CommandError(InqCmd))
               /\ UNCHANGED <<result, idx>>
          ELSE /\ fpc' = fpc
               /\ raised' = raised
               /\ idx' = idx + 1
               /\ result' = Append(result, HddEntry(sysenv, pool[idx + 1]))
    /\ ran' = Append(ran, Ran(InqCmd,
                                IF fpc' = "failed_wrapped" THEN Failure ELSE Success))
    /\ UNCHANGED <<sysenv, pool, poolAfterSsd>>
    /\ UNCHANGED <<diskVars, typeVars>>

\* the pool is cleared and find_disks returns devices_result
HddDone ==
    /\ fpc = "hdd"
    /\ idx = Len(pool)
    /\ pool' = <<>>
    /\ fpc' = "done"
    /\ UNCHANGED <<sysenv, result, idx, poolAfterSsd, ran, raised>>
    /\ UNCHANGED <<diskVars, typeVars>>

NextFinder ==
    \/ FindDisksStart
    \/ SsdStep
    \/ SsdDone
    \/ HddStep
    \/ HddDone

SpecFinder == InitFinder /\ [][NextFinder]_vars

(***************************************************************************)
(* Properties of the discovery pass                                        *)
(***************************************************************************)
RECURSIVE UnderRoot(_, _)

\* the devices the root filesystem lies on, through every level of slaves
UnderRoot(env, S) ==
    LET T == S \cup UNION {Range(env.slaves[n]) : n \in S \cap DOMAIN env.slaves}
    IN  IF T = S THEN S ELSE UnderRoot(env, T)

HasNoSlaves(env, n) == n \notin DOMAIN env.slaves \/ env.slaves[n] = <<>>

\* the whole disks that back the running operating system
OsBacking(env) ==
    {IF n \in DOMAIN ParentOf THEN ParentOf[n] ELSE n :
        n \in {m \in UnderRoot(env, {env.root}) : HasNoSlaves(env, m)}}

\* the listed sd and nvme devices that do not back the operating system
Candidates(env) ==
    {LinkOf[n] : n \in {m \in Range(ListBlock) : HasSd(m) \/ HasNvme(m)} \ OsBacking(env)}

SsdTypes == {"sata", "nand", "optane"}
HddTypes == {"hdd", "hdd4k"}

\* C8: no record of a discovery pass refers to a device that backs the running
\* operating system: the excluded set is the set of disks under the mount source
\* of the root filesystem, through every level of slaves down to the devices
\* without slaves, partitions replaced by their disks, and every listed device
\* in it is dropped before any classification.
C8_SystemDisksExcluded ==
    /\ Range(get_system_disks(sysenv)) = OsBacking(sysenv)
    /\ (fpc = "ssd" /\ idx = 0) => Range(pool) = Candidates(sysenv)
    /\ \A i \in DOMAIN pool : NameOf(pool[i]) \notin OsBacking(sysenv)
    /\ \A i \in DOMAIN result : NameOf(result[i].path) \notin OsBacking(sysenv)

\* witness of C8: the root filesystem lies on two levels of device-mapper devices
\* over partitions of sda and sdb, and the pass returned the one other disk
C8_Witness ==
    /\ fpc = "done"
    /\ sysenv.root = "dm-1"
    /\ OsBacking(sysenv) = {"sda", "sdb"}
    /\ Len(result) = 1
    /\ result[1].path = LinkOf["nvme0n1"]

\* C9: a device that got an SSD record from a vendor entry leaves the candidate
\* pool with that record, so it gets no HDD record: no path is in two records of
\* a pass, and a candidate device whose vendor entry reports Optane is in the
\* returned records once, with type optane.
C9_NoDeviceTwice ==
    /\ \A i, j \in DOMAIN result : i # j => result[i].path # result[j].path
    /\ \A i \in DOMAIN result :
          result[i].type \in SsdTypes => result[i].path \notin Range(pool)
    /\ fpc = "done" =>
          \A k \in DOMAIN sysenv.entries :
             LET e == sysenv.entries[k] IN
             (e.optane /\ e.dev \in WholeDisks /\ LinkOf[e.dev] \in Candidates(sysenv)) =>
                 /\ Cardinality({i \in DOMAIN result : result[i].path = LinkOf[e.dev]}) = 1
                 /\ \A i \in DOMAIN result :
                       result[i].path = LinkOf[e.dev] => result[i].type = "optane"

\* witness of C9: a pass returned the record of an Optane device, then an HDD record
C9_Witness ==
    /\ fpc = "done"
    /\ Len(result) = 2
    /\ result[1].type = "optane"
    /\ result[2].type \in HddTypes
    /\ poolAfterSsd = << result[2].path >>

\* C10: every device in the pool after the SSD classification gets exactly one
\* HDD record, hdd4k iff its block size is exactly 4096 and hdd otherwise, with
\* the measured block size recorded; after the HDD classification the pool is
\* empty.
C10_HddRecords ==
    /\ fpc = "hdd" => pool = poolAfterSsd
    /\ fpc = "done" =>
          /\ pool = <<>>
          /\ Len(result) >= Len(poolAfterSsd)
          /\ LET k == Len(result) - Len(poolAfterSsd) IN
              /\ \A i \in 1..k : result[i].type \in SsdTypes
              /\ \A i \in 1..Len(poolAfterSsd) :
                    LET r == result[k + i]
                        measured == sysenv.blocksize[NameOf(poolAfterSsd[i])]
                    IN  /\ r.path = poolAfterSsd[i]
                        /\ r.blocksize = measured
                        /\ r.type \in HddTypes
                        /\ r.type = "hdd4k" <=> measured = 4096

\* witness of C10: a pass returned an hdd4k record and an hdd record of a disk
\* whose block size is neither 512 nor 4096
C10_Witness ==
    /\ fpc = "done"
    /\ \E i, j \in DOMAIN result :
          /\ result[i].type = "hdd4k" /\ result[i].blocksize = 4096
          /\ result[j].type = "hdd" /\ result[j].blocksize = 8192

(***************************************************************************)
(* Properties of the type-constraint expressions                           *)
(***************************************************************************)
\* the order of the disk types, lowest first
TypeOrder == <<hdd, hdd4k, sata, nand, optane>>
Rank(t) == CHOOSE i \in DOMAIN TypeOrder : TypeOrder[i] = t
StrictlyBelow(t) == {u \in DiskType : Rank(u) < Rank(t)}
\* the lowest type of a non-empty set
Lowest(S) == CHOOSE m \in S : \A x \in S : Rank(m) <= Rank(x)

\* the type set of an expression that is resolved in the registry
TypeSetOf(e) ==
    IF e.kind = "set" THEN e.types
    ELSE StrictlyBelow(CHOOSE t \in DiskType : <<e.name, t>> \in registry)

IsResolved(e) == e.kind = "set" \/ \E t \in DiskType : <<e.name, t>> \in registry

\* C6: DiskTypeLowerThan(X).resolved() is true iff X is registered; types()
\* raises a lookup error whenever X is not registered and otherwise returns
\* exactly the disk types strictly below X's type in hdd < hdd4k < sata < nand <
\* optane (none when X is an hdd), against the registry as it is at the call.
C6_LowerThan ==
    expr[1].kind = "lt" =>
        /\ evald.op = "resolved" => (evald.bool <=> IsResolved(expr[1]))
        /\ evald.op = "types" =>
              IF IsResolved(expr[1])
              THEN evald.err = "ok" /\ evald.set = TypeSetOf(expr[1])
              ELSE evald.err = "LookupError"

\* witness of C6: types() of a lower-than expression on a registered nand disk
C6_Witness ==
    /\ expr[1].kind = "lt" /\ evald.op = "types" /\ evald.err = "ok"
    /\ evald.set = {hdd, hdd4k, sata}
    /\ <<expr[1].name, nand>> \in registry

\* what the comparison of the claim gives on two non-empty type sets
CmpOfLowest(op, S, T) == IntCmp(op, Rank(Lowest(S)), Rank(Lowest(T)))

Compared == evald.op \in CmpOps /\ IsResolved(expr[1]) /\ IsResolved(expr[2])

\* C7 as stated: each of the six comparisons of two resolved expressions returns
\* the boolean of the same comparison of the minimum types of the two sets.
C7_ComparesMinima ==
    Compared =>
        /\ evald.err = "ok"
        /\ evald.bool = CmpOfLowest(evald.op, TypeSetOf(expr[1]), TypeSetOf(expr[2]))

\* C7 amended: for two resolved expressions whose type sets are both non-empty,
\* each of the six comparisons returns the boolean of the same comparison of the
\* minimum types of the two sets and depends on nothing else in the sets; when
\* either set is empty (an explicit empty set, or lower-than an hdd disk) the
\* comparison raises a value error and returns no boolean.
C7_ComparesMinimaOrRaises ==
    Compared =>
        IF TypeSetOf(expr[1]) # {} /\ TypeSetOf(expr[2]) # {}
        THEN /\ evald.err = "ok"
             /\ evald.bool =
                   CmpOfLowest(evald.op, TypeSetOf(expr[1]), TypeSetOf(expr[2]))
        ELSE evald.err = "ValueError"

\* witness of C7: lower-than(a nand disk) < {hdd4k, optane} is true by the minima,
\* hdd and hdd4k, although sata of the left set is above hdd4k of the right one
C7_Witness ==
    /\ evald.op = "lt" /\ evald.err = "ok" /\ evald.bool
    /\ expr[1].kind = "lt" /\ TypeSetOf(expr[1]) = {hdd, hdd4k, sata}
    /\ expr[2] = SetExpr({hdd4k, optane})

(***************************************************************************)
(* Properties of the disk model                                            *)
(***************************************************************************)
\* the device of the disk is on the target: its serial is reported by a listed
\* block device, or (no serial) its path exists
Present(d, vis) ==
    IF Truthy(d.serial_number)
    THEN \E dev \in vis : SerialKey(dev) = d.serial_number
    ELSE PathExists(d.path, vis)

\* the message contains the word
Names(msg, word) == \E i \in DOMAIN msg : msg[i] = word

\* plug() found the disk detected / unplug() found it not detected, and returned
PlugNoOp == call.op = "plug" /\ firstDet.ret = "True"
UnplugNoOp == call.op = "unplug" /\ firstDet.ret = "False"

\* the disk with its path, and its partitions' paths, set from path p
Refreshed(d, p) ==
    [d EXCEPT !.path = p,
              !.partitions = [i \in DOMAIN d.partitions |->
                  [number |-> d.partitions[i].number,
                   path |-> get_partition_path(p, d.partitions[i].number)]]]

\* C1 as stated: plug() on a detected disk and unplug() on a disk that is not
\* detected issue no plug or removal command and change nothing of the disk: its
\* path, its partitions' paths and its cached plug command are as before the call.
C1_NoOpChangesNothing ==
    (PlugNoOp \/ UnplugNoOp) =>
        /\ call.ret = "return"
        /\ cmds = <<>>
        /\ disk.path = pre.path
        /\ disk.partitions = pre.partitions
        /\ disk.plug_command = pre.plug_command

\* C1 amended: both issue no plug or removal command and leave the cached plug
\* command unchanged; unplug() on a disk that is not detected changes nothing of
\* the disk; plug() on a detected disk whose serial number is known sets the
\* disk's path to the path currently mapped to its serial and recomputes the
\* partitions' paths from it (a change when the path was another one), and
\* changes nothing when no serial number is known.
C1_NoOpIssuesNothing ==
    /\ UnplugNoOp => call.ret = "return" /\ cmds = <<>> /\ disk = pre
    /\ PlugNoOp =>
          /\ call.ret = "return"
          /\ cmds = <<>>
          /\ disk.plug_command = pre.plug_command
          /\ disk = IF Truthy(pre.serial_number)
                    THEN Refreshed(pre, firstDet.mapped)
                    ELSE pre

\* witness of C1: plug() on a detected disk returned with the disk's path changed
C1_Witness ==
    /\ PlugNoOp /\ call.ret = "return" /\ disk.path # pre.path
    /\ Len(disk.partitions) > 0

\* the plug command plug() has to issue for the disk as it was at the call
PlugCmdOf(d) == IF IsNvme(d.disk_type) THEN NvmePlugAll ELSE d.plug_command

PlugActs == call.op = "plug" /\ firstDet.ret = "False"
UnplugActs == call.op = "unplug" /\ firstDet.ret = "True"

\* C2 as stated: plug() on a disk that is not detected (unplug() on a detected
\* one) issues exactly one plug (removal) command and ends in one of two ways
\* only: a normal return or a timeout failure.
C2_TwoOutcomes ==
    ((PlugActs \/ UnplugActs) /\ pc = "idle") =>
        /\ Len(cmds) = 1
        /\ call.ret \in {"return", "Timeout"}

C2_Inv ==
    /\ elapsed <= WaitTimeout
    /\ pc = "wait" <=> call.ret = "running"
    /\ PlugActs =>
          /\ cmds = << PlugCmdOf(pre) >>
          /\ call.ret \in {"running", "return", "Timeout", "CmdException", "LookupFailed"}
    /\ UnplugActs =>
          /\ IF IsNvme(pre.disk_type)
             THEN /\ Len(cmds) \in {1, 2}
                  /\ cmds[1] = Cmd("nvme_remove", <<>>)
                  /\ Len(cmds) = 2 => cmds[2] = Cmd("nvme_remove_nested", <<>>)
                  /\ call.ret \in {"running", "return", "Timeout", "CmdException",
                                   "LookupFailed"}
             ELSE \/ /\ cmds = <<>>
                     /\ call.ret \in {"SysfsNotFound", "TypeError"}
                  \/ /\ Len(cmds) = 1
                     /\ cmds[1].kind = "scsi_delete"
                     /\ call.ret \in {"running", "return", "Timeout", "CmdException",
                                      "LookupFailed"}

C2_Step ==
    \* commands are issued when the call starts, never between polls
    /\ cmds' # cmds => pc = "idle"
    \* a failed command, or an address that cannot be resolved, ends the call before any poll
    /\ call'.ret \in {"CmdException", "SysfsNotFound", "TypeError"} => pc = "idle"
    \* a normal return from the wait: this poll reported the wanted status
    /\ (pc = "wait" /\ call'.ret = "return") => (Present(disk, visible) = should)
    \* a timeout: the budget is used up
    /\ (call'.ret = "Timeout" /\ call.ret # "Timeout") =>
           (pc = "wait" /\ elapsed >= WaitTimeout)
    \* a poll that failed costs the fixed interval
    /\ (pc = "wait" /\ pc' = "wait" /\ probes' # probes) => elapsed' = elapsed + WaitInterval
    /\ (pc = "wait" /\ pc' = "wait") => elapsed' \in {elapsed, elapsed + WaitInterval}

\* C2 amended: plug() on a disk that is not detected issues the type-specific
\* plug command exactly once; if that command fails the call raises the command
\* error without polling; otherwise it polls is_detected at a fixed interval and
\* always ends, in exactly one of three ways: a normal return, only after a poll
\* reported the disk detected; a timeout failure, when the 60-second budget is
\* used up without such a poll; or the error of a detection poll that failed.
\* unplug() on a detected disk is symmetric, except that an NVMe disk issues a
\* second (nested) removal write when the first fails, and a SATA disk whose
\* sysfs address cannot be resolved raises an error with no removal command
\* issued. No command is re-issued between polls.
C2_PlugEnds ==
    /\ []C2_Inv
    /\ [][C2_Step]_vars
    /\ (pc = "wait") ~> (pc = "idle")

\* witnesses of C2: an unplug() that timed out after its removal command
C2_Witness ==
    /\ UnplugActs /\ call.ret = "Timeout" /\ Len(cmds) = 1

\* the thread inside wait_for_plug_status keeps running
FairSpecDisk == SpecDisk /\ WF_vars(Poll) /\ WF_vars(Timeout)

\* C3 as stated: the timeout error of unplug() (plug()) names the disk's type
\* and the action "unplug" ("plug").
C3_TimeoutNamesTypeAndAction ==
    call.ret = "Timeout" =>
        /\ Names(call.msg, call.op)
        /\ Names(call.msg, DiskTypeName(disk.disk_type))

\* C3 amended: the timeout error raised when unplug() (plug()) has polled for the
\* full 60 seconds names the intended action, "unplug" ("plug"), and only that
\* one; it does not name the disk's type.
C3_TimeoutNamesAction ==
    call.ret = "Timeout" =>
        /\ call.op \in {"plug", "unplug"}
        /\ Names(call.msg, call.op)
        /\ \A other \in {"plug", "unplug"} \ {call.op} : ~Names(call.msg, other)
        /\ \A t \in DiskType : ~Names(call.msg, DiskTypeName(t))

\* witness of C3: an unplug() timed out
C3_Witness ==
    call.op = "unplug" /\ call.ret = "Timeout" /\ Names(call.msg, "unplug")

\* C4: is_detected() with a serial number known returns true iff the serial is a
\* key of the current serial-to-path mapping; on true the disk's path is the
\* mapped path and every partition's path is recomputed from it and the
\* partition's number; on false path and partition paths are unchanged; the
\* path-existence check is used only when no serial number is known.
C4_DetectionBySerial ==
    (call.op = "is_detected" /\ call.ret \in {"True", "False"}) =>
        IF Truthy(pre.serial_number) THEN
            /\ probes = {"lookup"}
            /\ (call.ret = "True") <=> (pre.serial_number \in firstDet.keys)
            /\ call.ret = "True" =>
                  /\ disk.path = firstDet.mapped
                  /\ Present(disk, {firstDet.mapped})
                  /\ \A i \in DOMAIN disk.partitions :
                        disk.partitions[i].path =
                            get_partition_path(disk.path, pre.partitions[i].number)
                  /\ disk = Refreshed(pre, firstDet.mapped)
            /\ call.ret = "False" => disk = pre
        ELSE
            /\ probes = {"ls"}
            /\ disk = pre

\* witness of C4: is_detected() returned true and moved the disk and a partition
C4_Witness ==
    /\ call.op = "is_detected" /\ call.ret = "True"
    /\ Truthy(pre.serial_number)
    /\ disk.path # pre.path
    /\ Len(disk.partitions) > 0
    /\ disk.partitions[1].path # pre.partitions[1].path

NoIdentity(d) == ~Truthy(d.serial_number) /\ ~Truthy(d.path)

\* C5: on a disk with neither serial number nor path, is_detected() raises the
\* contract-violation error and sends nothing to the target; plug() and unplug()
\* fail with that error before any plug or removal command is issued.
C5_NoIdentityRaises ==
    (call.op # "none" /\ NoIdentity(pre)) =>
        /\ call.ret = "ContractViolation"
        /\ probes = {}
        /\ cmds = <<>>
        /\ pc = "idle"
        /\ disk = pre

\* witness of C5: plug() on such a disk raised
C5_Witness ==
    call.op = "plug" /\ NoIdentity(pre) /\ call.ret = "ContractViolation"

(***************************************************************************)
(* Properties of the vendor tool's invocation                              *)
(***************************************************************************)
\* the piece of the message that follows the label
Carries(msg, label, text) ==
    \E i \in DOMAIN msg : msg[i] = label /\ i + 1 \in DOMAIN msg /\ msg[i + 1] = text

\* the pass has run the vendor tool and it exited with a nonzero code
IsdctExitedNonzero ==
    /\ Len(ran) > 0
    /\ ran[1].cmd = IsdctCmd
    /\ ran[1].output.exit_code # 0

\* C11: when the run of the vendor tool exits with a nonzero code, find_disks
\* ends with an error that names the command 'isdct' and carries the stdout
\* and the stderr captured of that run; no other command has been run, before
\* or after (no block device is listed, the tool is not run again), and no
\* record is returned.
C11_IsdctFailureAborts ==
    IsdctExitedNonzero =>
        /\ fpc = "failed_isdct"
        /\ Names(raised, IsdctCmd)
        /\ Carries(raised, "'.\nstdout: ", ran[1].output.stdout)
        /\ Carries(raised, "\nstderr: ", ran[1].output.stderr)
        /\ Len(ran) = 1
        /\ result = <<>>
        /\ pool = <<>>

\* 'isdct' was not found on a target that has disks to discover
C11_Witness ==
    /\ IsdctExitedNonzero
    /\ ran[1].output.exit_code = 127
    /\ ran[1].output.stderr = "isdct: command not found"
    /\ raised # NoError
    /\ get_block_devices_list(sysenv) # <<>>
    /\ Len(sysenv.entries) > 0

(***************************************************************************)
(* Properties of the plug command a SATA disk caches                       *)
(***************************************************************************)
\* cmd writes 'port target lun' of the address to the scan file of host<controller>
IsTargetedScan(cmd, addr) ==
    /\ cmd.kind = "scsi_scan"
    /\ cmd.arg[1] = addr[1]
    /\ <<cmd.arg[2], cmd.arg[3], cmd.arg[4]>> = <<addr[2], addr[3], addr[4]>>

\* the call on the disk is a plug() that has issued its command
PlugIssued == call.op = "plug" /\ cmds # <<>>

\* the call on the disk is an unplug() that has issued its removal command
UnplugIssued == call.op = "unplug" /\ cmds # <<>>

\* C12: for a SATA disk, plug() issues the rescan of all SCSI hosts as long
\* as no unplug() has issued a removal command since construction, and after
\* an unplug() that resolved the sysfs address it issues the targeted scan of
\* the address the most recent such unplug() parsed; an unplug() that issued
\* the deletion write has cached the scan of that address whether or not the
\* write succeeded, and an unplug() that is a no-op leaves the cached command
\* as it was.
C12_SataPlugCommand ==
    ~IsNvme(disk.disk_type) =>
        /\ (PlugIssued /\ ~removed) => cmds = <<SataPlugAll>>
        /\ (PlugIssued /\ lastAddr # NoAddr) =>
               Len(cmds) = 1 /\ IsTargetedScan(cmds[1], lastAddr)
        /\ removed <=> lastAddr # NoAddr
        /\ UnplugIssued =>
               /\ cmds[1].kind = "scsi_delete"
               /\ IsTargetedScan(disk.plug_command, cmds[1].arg)
               /\ lastAddr = cmds[1].arg
        /\ (UnplugNoOp /\ call.ret = "return") =>
               disk.plug_command = pre.plug_command

\* a plug() issues the scan of host 1 that the latest unplug() cached over an
\* earlier command
C12_Witness ==
    /\ ~IsNvme(disk.disk_type)
    /\ PlugIssued
    /\ removed
    /\ lastAddr = <<1, 0, 1, 0>>
    /\ cmds = <<ScanCmd(lastAddr)>>

(***************************************************************************)
(* Properties of the removal of an NVMe disk                               *)
(***************************************************************************)
\* the call on the disk is the unplug() of an NVMe disk found detected
NvmeUnplugActs ==
    /\ IsNvme(disk.disk_type)
    /\ call.op = "unplug"
    /\ firstDet.ret = "True"

\* every removal write of the call exited with a nonzero code
AllWritesFailed == \A i \in DOMAIN exits : exits[i] # 0

\* C13: the unplug() of a detected NVMe disk first writes to the device's
\* removal control file; it makes the nested device/device/remove write iff
\* the first write exited nonzero; it ends with the command error that
\* carries the captured output iff both writes failed, and then without
\* polling; when a write succeeded the polling for absence follows.
C13_NvmeRemoval ==
    NvmeUnplugActs =>
        /\ Len(cmds) \in {1, 2}
        /\ Len(exits) = Len(cmds)
        /\ cmds[1] = Cmd("nvme_remove", <<>>)
        /\ (Len(cmds) = 2) <=> (exits[1] # 0)
        /\ Len(cmds) = 2 => cmds[2] = Cmd("nvme_remove_nested", <<>>)
        /\ (call.ret = "CmdException") <=> AllWritesFailed
        /\ AllWritesFailed =>
               /\ Len(cmds) = 2
               /\ pc = "idle"
               /\ elapsed = 0
               /\ Names(call.msg, "nvme_remove_nested")
        /\ ~AllWritesFailed =>
               /\ call.ret \in {"running", "return", "Timeout", "LookupFailed"}
               /\ call.ret = "running" <=> pc = "wait"

\* the first write failed, the nested one succeeded and the disk is waited for
C13_Witness ==
    /\ NvmeUnplugActs
    /\ exits = <<1, 0>>
    /\ pc = "wait"
    /\ elapsed > 0

====
